---- MODULE Spec2Model ----
(***************************************************************************)
(* The data grid (components/DataGrid.tsx, first component of the file)    *)
(* and the part of its host (App) that feeds it: the table shown, the zoom *)
(* level and the edit callback.                                            *)
(*                                                                         *)
(* Lengths are whole CSS pixels.  rowHeight = 36 * (zoomLevel / 100) is a  *)
(* fraction in general, so every quotient by it is computed exactly on     *)
(* values scaled by 100.  Floating-point rounding is not modelled.         *)
(***************************************************************************)
EXTENDS Integers, Sequences, FiniteSets, TLC

VARIABLES
    sheets,             \* App: useState<Sheet[]>, the open tables in tab order
    activeSheetId,      \* App: id of the table handed to the grid, or NullId
    zoomLevel,          \* App: zoom percentage handed to the grid
    mounted,            \* whether App renders a DataGrid (activeSheet exists)
    pendingEffects,     \* "none" | "mount" | "reset": passive effects not yet run
    scrollTop,          \* DataGrid: useState scrollTop
    containerHeight,    \* DataGrid: useState containerHeight
    colWidths,          \* DataGrid: useState colWidths, column name -> base width
    editingCell,        \* DataGrid: useState editingCell, or NoEdit
    editValue,          \* DataGrid: useState editValue (the draft)
    selectedCell,       \* DataGrid: useState selectedCell, or NoSel
    resizingRef,        \* DataGrid: resizingRef.current, or NoDrag
    isResizing,         \* DataGrid: useState isResizing
    domScrollTop,       \* containerRef.current.scrollTop
    clientHeight,       \* containerRef.current.clientHeight (the window's share)
    scrollEventPending, \* the browser moved scrollTop itself; onScroll not yet run
    focus,              \* "input" | "container" | "body": the focused element
    sessionCalls,       \* onCellEdit invocations since the last startEditing
    lastCall,           \* arguments of the latest onCellEdit invocation
    sessionEnd,         \* how the latest edit session ended
    sessionOpen,        \* cell, table and stored value at the last startEditing
    curDrag,            \* the drag session in progress: zoom, pointer, clamp
    lastDrag,           \* the drag session that ended last
    nSessions,          \* drag sessions started so far
    nEdits,             \* edit sessions opened so far
    lastOp,             \* the handler that ran last, with its arguments
    compareSheetId      \* App: compareSheetId while isCompareMode, or NullId

vars == << sheets, activeSheetId, zoomLevel, mounted, pendingEffects, scrollTop,
           containerHeight, colWidths, editingCell, editValue, selectedCell,
           resizingRef, isResizing, domScrollTop, clientHeight,
           scrollEventPending, focus, sessionCalls, lastCall, sessionEnd,
           sessionOpen, curDrag, lastDrag, nSessions, nEdits, lastOp,
           compareSheetId >>

hostVars == << sheets, activeSheetId, zoomLevel, compareSheetId >>
editVars == << editingCell, editValue, selectedCell, focus >>
editGhost == << sessionCalls, lastCall, sessionEnd, sessionOpen, nEdits >>
dragVars == << resizingRef, isResizing >>
dragGhost == << curDrag, lastDrag, nSessions >>
scrollVars == << scrollTop, containerHeight, domScrollTop, clientHeight,
                 scrollEventPending >>

----------------------------------------------------------------------------
(* Program constants *)

ROW_HEIGHT_BASE == 36
buffer == 10
HeaderHeight == 40
DefaultWidth == 150
DragMinWidth == 50
AutoMinWidth == 60
AutoMaxWidth == 800
AutoMaxWidth2 == 600
HeaderPad == 40
CellPad == 24
SampleCap == 500
SampleCap2 == 200
InitialZoom == 100
ZoomMin == 20
ZoomMax == 200
ZoomStep == 10

(* Bounds of the model *)

MaxSessions == 2
MaxLayoutSessions == 1
MaxEdits == 2
BigRows == 24
LongExtra == 1

----------------------------------------------------------------------------
(* Values and tables *)

Max(a, b) == IF a >= b THEN a ELSE b
Min(a, b) == IF a <= b THEN a ELSE b
Floor(a, b) == a \div b
Ceil(a, b) == (a + b - 1) \div b

\* A cell value of DataRow: string | number | boolean | null.  s is the text
\* String(value) gives for a string or a number.
StrV(s) == [t |-> "str", s |-> s]
NumV(s) == [t |-> "num", s |-> s]
BoolV(s) == [t |-> "bool", s |-> s]
NullV == [t |-> "null", s |-> ""]
UndefV == [t |-> "undefined", s |-> ""]

\* row[col]: undefined when the row has no such key
Cell(row, col) == IF col \in DOMAIN row THEN row[col] ELSE UndefV

\* val !== null && val !== undefined ? String(val) : ''
DisplayText(val) == IF val.t \in {"null", "undefined"} THEN "" ELSE val.s

NullId == "null"

\* The files a user can open, as the parsers deliver them.
FileIds == {"big", "small", "head"}

BigRow == [A |-> NumV("42"), C |-> StrV("x")]

\* A table longer than the auto-fit's sample: the last sampled row holds the
\* widest sampled text of column A, column B is null or absent in the sampled
\* rows, and the rows after the sample hold other texts in both columns.
LongRows == SampleCap + LongExtra
LongRow(i) ==
    IF i > SampleCap THEN [A |-> NumV("42"), B |-> StrV("x")]
    ELSE IF i = SampleCap THEN [A |-> StrV("x")]
    ELSE [A |-> StrV(""), B |-> NullV]

FileSheet(f) ==
    CASE f = "big" ->
           [id |-> "big", columns |-> << "A", "C" >>,
            data |-> [i \in 1..BigRows |-> BigRow]]
      [] f = "small" ->
           [id |-> "small", columns |-> << "A", "B" >>,
            data |-> << [A |-> NumV("42"), B |-> NullV], [A |-> StrV("x")] >>]
      [] f = "head" ->
           [id |-> "head", columns |-> << "B" >>, data |-> << >>]
      [] f = "new" ->
           [id |-> "new", columns |-> << >>, data |-> << >>]
      [] f = "long" ->
           [id |-> "long", columns |-> << "A", "B" >>,
            data |-> [i \in 1..LongRows |-> LongRow(i)]]
      [] f = "wide" ->
           [id |-> "wide", columns |-> << "A", "B", "C" >>,
            data |-> << [A |-> NumV("42"), B |-> NullV, C |-> StrV("x")],
                        [A |-> StrV("x"), B |-> StrV(""), C |-> NumV("7")] >>]
      [] f = "twin" ->
           [id |-> "twin", columns |-> << "A", "B" >>,
            data |-> << [A |-> NumV("42"), B |-> NullV], [A |-> StrV("x")] >>]
      [] f = "flags" ->
           [id |-> "flags", columns |-> << "A", "B" >>,
            data |-> << [A |-> BoolV("true"), B |-> NumV("42")],
                        [A |-> StrV("true"), B |-> StrV("")],
                        [A |-> NumV("7"), B |-> StrV("x")] >>]

ZoomLevels == {50, 100, 200}
\* The container shows five rows at 100% zoom when it is mounted
InitialHeight == 5 * ROW_HEIGHT_BASE
ClientHeights == {36, InitialHeight}
ScrollStops == {0, 50, 400}
PointerXs == {0, 200}

\* ctx.measureText(t).width for the texts of the tables, in three
\* environments: every text measured 0, a font in which a cell text can be
\* wider than its header, and every text very wide.
AllTexts == {"A", "B", "C", "", "42", "x", " x "}
MeasureFns ==
    { [t \in AllTexts |-> 0],
      [t \in AllTexts |-> CASE t = "" -> 0 [] t = "42" -> 126
                             [] t \in {"x", " x "} -> 226 [] OTHER -> 110],
      [t \in AllTexts |-> 1000] }
LayoutFiles == {"small", "head"}
ResizeCols == {"A", "B"}
DraftTexts == {"", "42", " x "}

NoEdit == [row |-> -1, col |-> ""]
NoSel == [row |-> -1, colIdx |-> -1]
NoDrag == [col |-> "", startX |-> 0, startWidth |-> 0]
NoCall == [row |-> -1, col |-> "", value |-> NullV]
NoOpen == [row |-> -1, col |-> "", sheet |-> NullId, before |-> NullV,
           draft |-> ""]
NoCur == [zoom |-> 0, x |-> 0, before |-> 0, clamped |-> FALSE, clean |-> TRUE]
NoDragRec == [col |-> "", zoom |-> 0, disp |-> 0, before |-> 0, after |-> 0,
              clamped |-> FALSE, clean |-> TRUE]
NoOp == [name |-> "", col |-> ""]

----------------------------------------------------------------------------
(* What a render derives from props and state *)

IsOpen(id) == \E i \in 1..Len(sheets) : sheets[i].id = id

\* sheets.find(s => s.id === activeSheetId)
\* (NoSheet stands for undefined)
NoSheet == [id |-> NullId, columns |-> << >>, data |-> << >>]
SheetOf(ss, id) ==
    IF \E i \in 1..Len(ss) : ss[i].id = id
    THEN ss[CHOOSE i \in 1..Len(ss) : ss[i].id = id]
    ELSE NoSheet
ActiveSheet == SheetOf(sheets, activeSheetId)

SeqRange(s) == {s[i] : i \in 1..Len(s)}

\* sheet.columns.indexOf(col), 0-based, -1 when absent
IndexOf(cols, col) ==
    IF col \in SeqRange(cols)
    THEN (CHOOSE i \in 1..Len(cols) : cols[i] = col) - 1
    ELSE -1

\* rowHeight * 100
RowHeight100(zoom) == ROW_HEIGHT_BASE * zoom

\* A start index without the rows kept ahead of the view
startIndexTight(st, zoom) == Floor(st * 100, RowHeight100(zoom))

startIndexOf(st, zoom) ==
    Max(0, Floor(st * 100, RowHeight100(zoom)) - buffer)

\* An end index that is not limited to the table's length
endIndexUnclamped(st, ch, total, zoom) ==
    Ceil((st + ch) * 100, RowHeight100(zoom)) + buffer

endIndexOf(st, ch, total, zoom) ==
    Min(total, Ceil((st + ch) * 100, RowHeight100(zoom)) + buffer)

\* sheet.data.slice(startIndex, endIndex).length
SliceLen(total, from, to) == Max(0, Min(to, total) - Min(from, total))

topSpacerHeight100(st, zoom) == startIndexOf(st, zoom) * RowHeight100(zoom)

bottomSpacerHeight100(st, ch, total, zoom) ==
    (total - endIndexOf(st, ch, total, zoom)) * RowHeight100(zoom)

totalRows == Len(ActiveSheet.data)
startIndex == startIndexOf(scrollTop, zoomLevel)
endIndex == endIndexOf(scrollTop, containerHeight, totalRows, zoomLevel)
topSpacer100 == topSpacerHeight100(scrollTop, zoomLevel)
bottomSpacer100 ==
    bottomSpacerHeight100(scrollTop, containerHeight, totalRows, zoomLevel)

\* A grid that renders its container for a table without rows too
HasContainerAlways(sheet) == TRUE

\* The grid returns the empty-state panel, with no scroll container, when the
\* table has no rows.
HasContainer(sheet) == Len(sheet.data) > 0

ContainerShown == mounted /\ HasContainer(ActiveSheet)

\* Rows the render puts in the table body
visibleRowCount == SliceLen(totalRows, startIndex, endIndex)

\* Height * 100 of the table body as rendered: a spacer row is rendered only
\* when its height is positive, and each materialized row is rowHeight high.
bodyHeight100 ==
    Max(0, topSpacer100) + visibleRowCount * RowHeight100(zoomLevel)
      + Max(0, bottomSpacer100)

\* Height * 100 of the scrolled content: the div of height totalHeight + 40,
\* or the table (40 pixels of header and the body) where it overflows the div.
contentHeight100 ==
    HeaderHeight * 100 + Max(totalRows * RowHeight100(zoomLevel), bodyHeight100)

\* The largest scrollTop the browser allows the container
ScrollMax == Max(0, Ceil(contentHeight100, 100) - clientHeight)

\* colWidths[col] || 150
BaseWidth(cw, col) == IF col \in DOMAIN cw THEN cw[col] ELSE DefaultWidth

\* { ...cw, [col]: w }
Put(cw, col, w) ==
    [c \in DOMAIN cw \cup {col} |-> IF c = col THEN w ELSE cw[c]]

\* The editor <input> is rendered in the cell editingCell names, when that row
\* is materialized and the column is one of the table's.
EditorShown ==
    /\ ContainerShown
    /\ editingCell # NoEdit
    /\ editingCell.row >= startIndex
    /\ editingCell.row < startIndex + visibleRowCount
    /\ editingCell.col \in SeqRange(ActiveSheet.columns)

----------------------------------------------------------------------------
(* What the browser does after a render *)

\* The browser keeps scrollTop within the content; a container that is new
\* starts at 0.  A scrollTop the browser moved raises a scroll event.
DomSettle ==
    /\ domScrollTop' =
          IF ContainerShown' /\ ContainerShown
          THEN Min(domScrollTop, ScrollMax') ELSE 0
    /\ scrollEventPending' =
          /\ ContainerShown'
          /\ \/ scrollEventPending /\ ContainerShown
             \/ ContainerShown /\ domScrollTop' # domScrollTop

\* autoFocus focuses an editor that appears; an element that disappears
\* leaves the focus on the body.
FocusSettle ==
    focus' =
      IF EditorShown' /\ (~EditorShown \/ editingCell' # editingCell) THEN "input"
      ELSE IF focus = "input" /\ ~EditorShown' THEN "body"
      ELSE IF focus = "container" /\ ~ContainerShown' THEN "body"
      ELSE focus

----------------------------------------------------------------------------
Init ==
    /\ sheets = << >>
    /\ activeSheetId = NullId
    /\ zoomLevel = InitialZoom
    /\ mounted = FALSE
    /\ pendingEffects = "none"
    /\ scrollTop = 0
    /\ containerHeight = 0
    /\ colWidths = << >>
    /\ editingCell = NoEdit
    /\ editValue = ""
    /\ selectedCell = NoSel
    /\ resizingRef = NoDrag
    /\ isResizing = FALSE
    /\ domScrollTop = 0
    /\ clientHeight = InitialHeight
    /\ scrollEventPending = FALSE
    /\ focus = "body"
    /\ sessionCalls = 0
    /\ lastCall = NoCall
    /\ sessionEnd = "none"
    /\ sessionOpen = NoOpen
    /\ curDrag = NoCur
    /\ lastDrag = NoDragRec
    /\ nSessions = 0
    /\ nEdits = 0
    /\ lastOp = NoOp
    /\ compareSheetId = NullId

Op(name, col) == [name |-> name, col |-> col]

----------------------------------------------------------------------------
(* Host: the table handed to the grid *)

\* The grid after a render with another sheet prop: a grid that was not
\* rendered is constructed (useState initial values); one that was keeps its
\* state until the reset effect runs.
ShowSheet ==
    /\ mounted' = TRUE
    /\ pendingEffects' = IF mounted THEN "reset" ELSE "mount"
    /\ UNCHANGED << scrollTop, containerHeight, colWidths, editingCell,
                    editValue, selectedCell, resizingRef, isResizing,
                    clientHeight >>
    /\ DomSettle
    /\ FocusSettle

\* handleFileUpload(file), from the parsed text on
handleFileUpload(f) ==
    /\ pendingEffects = "none"
    /\ ~IsOpen(f)
    /\ sheets' = Append(sheets, FileSheet(f))
    /\ activeSheetId' = f
    /\ UNCHANGED << zoomLevel, compareSheetId >>
    /\ ShowSheet
    /\ lastOp' = Op("handleFileUpload", "")
    /\ UNCHANGED << editGhost, dragGhost >>

\* createEmptySheet(): a sheet without columns and rows, made the active one
createEmptySheet ==
    /\ pendingEffects = "none"
    /\ ~IsOpen("new")
    /\ focus # "input"
    /\ sheets' = Append(sheets, FileSheet("new"))
    /\ activeSheetId' = "new"
    /\ UNCHANGED << zoomLevel, compareSheetId >>
    /\ ShowSheet
    /\ lastOp' = Op("createEmptySheet", "")
    /\ UNCHANGED << editGhost, dragGhost >>

\* tab onClick: setActiveSheetId(sheet.id)
selectTab(id) ==
    /\ pendingEffects = "none"
    /\ IsOpen(id)
    /\ id # activeSheetId
    /\ focus # "input"
    /\ activeSheetId' = id
    /\ UNCHANGED << sheets, zoomLevel, compareSheetId >>
    /\ ShowSheet
    /\ lastOp' = Op("selectTab", "")
    /\ UNCHANGED << editGhost, dragGhost >>

\* The grid re-rendered with another zoomLevel: the level the zoom controls
\* have reached.
setZoomLevel(z) ==
    /\ mounted
    /\ pendingEffects = "none"
    /\ z # zoomLevel
    /\ zoomLevel' = z
    /\ UNCHANGED << sheets, activeSheetId, compareSheetId, mounted,
                    pendingEffects, scrollTop,
                    containerHeight, colWidths, editingCell, editValue,
                    selectedCell, resizingRef, isResizing, clientHeight >>
    /\ DomSettle
    /\ FocusSettle
    /\ lastOp' = Op("setZoomLevel", "")
    /\ UNCHANGED << editGhost, dragGhost >>

\* A zoom without the upper limit: Math.max(20, prev + delta)
zoomAfterUnbounded(prev, delta) == Max(ZoomMin, prev + delta)

\* Math.min(Math.max(20, prev + delta), 200)
zoomAfter(prev, delta) == Min(Max(ZoomMin, prev + delta), ZoomMax)

\* The zoom-out and zoom-in buttons: adjustZoom(-10), adjustZoom(10)
adjustZoom(delta) ==
    /\ mounted
    /\ pendingEffects = "none"
    /\ focus # "input"
    /\ zoomLevel' = zoomAfter(zoomLevel, delta)
    /\ UNCHANGED << sheets, activeSheetId, compareSheetId, mounted,
                    pendingEffects, scrollTop, containerHeight, colWidths,
                    editingCell, editValue, selectedCell, resizingRef,
                    isResizing, clientHeight >>
    /\ DomSettle
    /\ FocusSettle
    /\ lastOp' = Op("adjustZoom", IF delta < 0 THEN "out" ELSE "in")
    /\ UNCHANGED << editGhost, dragGhost >>

----------------------------------------------------------------------------
(* Grid: effects *)

\* sheet.columns.forEach(c => initialWidths[c] = 150)
initialWidths(cols) == [c \in SeqRange(cols) |-> DefaultWidth]

\* A reset that keeps the widths the map already has
widthsMerged(prev, cols) ==
    [c \in DOMAIN prev \cup SeqRange(cols) |->
       IF c \in DOMAIN prev THEN prev[c] ELSE DefaultWidth]

\* setColWidths(initialWidths)
widthsAfterReset(prev, cols) == initialWidths(cols)

\* A reset that leaves the edit session as it is
editingKept(ec) == ec

\* setEditingCell(null)
editingAfterReset(ec) == NoEdit

\* A reset that leaves the selection as it is
selectionKept(sel) == sel

\* setSelectedCell(null)
selectionAfterReset(sel) == NoSel

\* The columns whose width in cw is not the default
Resized(cw) == {c \in DOMAIN cw : cw[c] # DefaultWidth}

\* The passive effects of the render: the reset effect on [sheet.id,
\* sheet.columns] and, after the first render, the resize effect's
\* handleResize().
runEffects ==
    /\ pendingEffects # "none"
    /\ pendingEffects' = "none"
    /\ colWidths' = widthsAfterReset(colWidths, ActiveSheet.columns)
    /\ editingCell' = editingAfterReset(editingCell)
    /\ selectedCell' = selectionAfterReset(selectedCell)
    /\ scrollTop' = 0
    /\ containerHeight' =
          IF pendingEffects = "mount" /\ ContainerShown
          THEN clientHeight ELSE containerHeight
    /\ UNCHANGED << hostVars, mounted, editValue, resizingRef, isResizing,
                    clientHeight >>
    /\ DomSettle
    /\ FocusSettle
    /\ sessionEnd' = IF editingCell # NoEdit THEN "reset" ELSE sessionEnd
    /\ curDrag' = [curDrag EXCEPT !.clean = FALSE]
    /\ UNCHANGED << sessionCalls, lastCall, sessionOpen, lastDrag, nSessions,
                    nEdits >>
    /\ lastOp' = [name |-> "runEffects", col |-> "", sel |-> selectedCell,
                   edit |-> editingCell, resized |-> Resized(colWidths)]

----------------------------------------------------------------------------
(* Grid: scrolling and the viewport *)

\* onScroll after the user scrolled the container to s
onScroll(s) ==
    /\ ContainerShown
    /\ pendingEffects = "none"
    /\ s \in 0..ScrollMax
    /\ s # domScrollTop \/ scrollEventPending
    /\ scrollTop' = s
    /\ UNCHANGED << hostVars, mounted, pendingEffects, containerHeight,
                    colWidths, editingCell, editValue, selectedCell,
                    resizingRef, isResizing, clientHeight >>
    /\ domScrollTop' = Min(s, ScrollMax')
    /\ scrollEventPending' = (domScrollTop' # s)
    /\ FocusSettle
    /\ lastOp' = Op("onScroll", "")
    /\ UNCHANGED << editGhost, dragGhost >>

\* window 'resize': handleResize() after the container became h high
handleResize(h) ==
    /\ mounted
    /\ pendingEffects = "none"
    /\ h # clientHeight
    /\ clientHeight' = h
    /\ containerHeight' = IF ContainerShown THEN h ELSE containerHeight
    /\ UNCHANGED << hostVars, mounted, pendingEffects, scrollTop, colWidths,
                    editingCell, editValue, selectedCell, resizingRef,
                    isResizing >>
    /\ DomSettle
    /\ FocusSettle
    /\ lastOp' = Op("handleResize", "")
    /\ UNCHANGED << editGhost, dragGhost >>

NextWindow ==
    \/ \E f \in FileIds : handleFileUpload(f)
    \/ \E id \in FileIds : selectTab(id)
    \/ \E z \in ZoomLevels : setZoomLevel(z)
    \/ runEffects
    \/ \E s \in ScrollStops \cup {domScrollTop, ScrollMax} : onScroll(s)
    \/ \E h \in ClientHeights : handleResize(h)

SpecWindow == Init /\ [][NextWindow]_vars

----------------------------------------------------------------------------
(* Grid: column widths *)

\* A session that starts from the default width whatever the column has
startWidthDefault(cw, col) == DefaultWidth

\* startWidth: colWidths[col] || 150
startWidthOf(cw, col) == BaseWidth(cw, col)

\* onMouseDown of a column's resize handle at clientX = x
startResizing(col, x) ==
    /\ ContainerShown
    /\ pendingEffects = "none"
    /\ resizingRef = NoDrag
    /\ nSessions < MaxSessions
    /\ col \in SeqRange(ActiveSheet.columns)
    /\ resizingRef' = [col |-> col, startX |-> x,
                       startWidth |-> startWidthOf(colWidths, col)]
    /\ isResizing' = TRUE
    /\ UNCHANGED << hostVars, mounted, pendingEffects, scrollVars, colWidths,
                    editVars, editGhost >>
    /\ curDrag' = [zoom |-> zoomLevel, x |-> x,
                   before |-> BaseWidth(colWidths, col), clamped |-> FALSE,
                   clean |-> TRUE]
    /\ nSessions' = nSessions + 1
    /\ UNCHANGED lastDrag
    /\ lastOp' = Op("startResizing", col)

\* A displacement taken as base-width pixels whatever the zoom
adjustedDiffUnscaled(startX, clientX, zoom) == startX - clientX

\* (startX - e.clientX) * (100 / zoomLevel)
adjustedDiff(startX, clientX, zoom) == ((startX - clientX) * 100) \div zoom

\* A move that starts from the width the column has now
dragBaseCurrent(cw, ref) == BaseWidth(cw, ref.col)

\* The width the move starts from: startWidth of the session
dragBase(cw, ref) == ref.startWidth

\* Math.max(50, startWidth + adjustedDiff)
finalWidthOf(base, diff) == Max(DragMinWidth, base + diff)

\* An update that keeps no other column: setColWidths({ [col]: finalWidth })
withWidthOnly(prev, col, w) == [c \in {col} |-> w]

\* setColWidths(prev => ({ ...prev, [col]: finalWidth }))
withWidth(prev, col, w) == Put(prev, col, w)

\* window 'mousemove' while the listeners are attached
handleMouseMove(x) ==
    /\ mounted
    /\ isResizing
    /\ pendingEffects = "none"
    /\ IF resizingRef = NoDrag
       THEN UNCHANGED << colWidths, curDrag >>
       ELSE LET diff == adjustedDiff(resizingRef.startX, x, zoomLevel)
                base == dragBase(colWidths, resizingRef)
            IN  /\ colWidths' =
                     withWidth(colWidths, resizingRef.col,
                               finalWidthOf(base, diff))
                /\ curDrag' =
                     [curDrag EXCEPT
                        !.zoom = IF zoomLevel = curDrag.zoom THEN @ ELSE 0,
                        !.x = x,
                        !.clamped = (base + diff < DragMinWidth)]
    /\ UNCHANGED << hostVars, mounted, pendingEffects, scrollVars, editVars,
                    editGhost, dragVars, lastDrag, nSessions >>
    /\ lastOp' = Op("handleMouseMove", resizingRef.col)

\* A pointer-up that leaves the session in place
refKept(ref) == ref

\* resizingRef.current = null
refAfterUp(ref) == NoDrag

\* window 'mouseup' while the listeners are attached
handleMouseUp ==
    /\ mounted
    /\ isResizing
    /\ pendingEffects = "none"
    /\ IF resizingRef # NoDrag
       THEN /\ resizingRef' = refAfterUp(resizingRef)
            /\ isResizing' = FALSE
            /\ lastDrag' =
                 [col |-> resizingRef.col,
                  zoom |-> curDrag.zoom,
                  disp |-> curDrag.x - resizingRef.startX,
                  before |-> curDrag.before,
                  after |-> BaseWidth(colWidths, resizingRef.col),
                  clamped |-> curDrag.clamped,
                  clean |-> curDrag.clean]
            /\ curDrag' = NoCur
       ELSE UNCHANGED << dragVars, lastDrag, curDrag >>
    /\ UNCHANGED << hostVars, mounted, pendingEffects, scrollVars, colWidths,
                    editVars, editGhost, nSessions >>
    /\ lastOp' = Op("handleMouseUp", resizingRef.col)

\* A clamp with the lower limit only: Math.max(maxWidth, 60)
clampAutoLow(w) == Max(w, AutoMinWidth)

\* Math.min(Math.max(maxWidth, 60), 800)
clampAuto(w) == Min(Max(w, AutoMinWidth), AutoMaxWidth)

\* Math.min(Math.max(maxWidth, 60), 600), the second component
clampAuto2(w) == Min(Max(w, AutoMinWidth), AutoMaxWidth2)

\* The greatest w of the loop over the rows lo..hi of column col, each text
\* with its padding; 0 when there is no such row.  mw[t] is
\* ctx.measureText(t).width.  The rows are taken by halves, which keeps the
\* evaluation shallow for a sample of 500 rows.
RECURSIVE maxWidthOf(_, _, _, _, _)
maxWidthOf(sheet, col, mw, lo, hi) ==
    IF lo > hi THEN 0
    ELSE IF lo = hi THEN mw[DisplayText(Cell(sheet.data[lo], col))] + CellPad
    ELSE LET mid == (lo + hi) \div 2
             a == maxWidthOf(sheet, col, mw, lo, mid)
             b == maxWidthOf(sheet, col, mw, mid + 1, hi)
         IN  IF b > a THEN b ELSE a

\* A width measured over every row of the table
autoWidthAllRows(sheet, col, mw) ==
    clampAuto(Max(mw[col] + HeaderPad,
                  maxWidthOf(sheet, col, mw, 1, Len(sheet.data))))

\* The width performAutoSize computes for column col: the header with its
\* allowance and the first min(length, 500) rows
autoWidth(sheet, col, mw) ==
    clampAuto(Max(mw[col] + HeaderPad,
                  maxWidthOf(sheet, col, mw, 1,
                             Min(Len(sheet.data), SampleCap))))

\* autoSizeColumns of the second component, which samples 200 rows
autoWidth2(sheet, col, mw) ==
    clampAuto2(Max(mw[col] + HeaderPad,
                   maxWidthOf(sheet, col, mw, 1,
                              Min(Len(sheet.data), SampleCap2))))

\* getContext('2d') returned null: there is nothing to measure with
NoCtx == << >>

\* The 2d contexts the environment can hand out
Contexts == MeasureFns \cup {NoCtx}

\* An auto-size that takes every text to measure 0 without a context
autoSizedUnmeasured(cw, sheet, columnsToResize, mw) ==
    [c \in DOMAIN cw \cup columnsToResize |->
       IF c \in columnsToResize
       THEN IF mw = NoCtx THEN clampAuto(0) ELSE autoWidth(sheet, c, mw)
       ELSE cw[c]]

\* The map performAutoSize hands to setColWidths, or the map as it is when
\* it returns at if (!ctx)
autoSized(cw, sheet, columnsToResize, mw) ==
    IF mw = NoCtx THEN cw
    ELSE [c \in DOMAIN cw \cup columnsToResize |->
            IF c \in columnsToResize THEN autoWidth(sheet, c, mw)
            ELSE cw[c]]

\* performAutoSize(specificCol): specificCol = "" stands for no argument
performAutoSize(specificCol, mw) ==
    /\ mounted
    /\ pendingEffects = "none"
    /\ LET columnsToResize ==
             IF specificCol # "" THEN {specificCol}
             ELSE SeqRange(ActiveSheet.columns)
       IN  colWidths' = autoSized(colWidths, ActiveSheet, columnsToResize, mw)
    /\ UNCHANGED << hostVars, mounted, pendingEffects, scrollVars, editVars,
                    editGhost, dragVars, lastDrag, nSessions >>
    /\ curDrag' = IF mw = NoCtx THEN curDrag
                  ELSE [curDrag EXCEPT !.clean = FALSE]
    /\ lastOp' = [name |-> "performAutoSize", col |-> specificCol,
                   ctx |-> (mw # NoCtx), mw |-> mw]

\* The toolbar's button: dataGridRef.current.autoSizeColumns()
autoSizeColumns ==
    \E mw \in Contexts : performAutoSize("", mw)

\* onDoubleClick of a column's resize handle
autoSizeColumn(col) ==
    /\ ContainerShown
    /\ resizingRef = NoDrag
    /\ col \in SeqRange(ActiveSheet.columns)
    /\ \E mw \in Contexts : performAutoSize(col, mw)

LayoutZooms == {100, 200}

NextLayout ==
    \/ \E f \in LayoutFiles : handleFileUpload(f)
    \/ \E id \in LayoutFiles : selectTab(id)
    \/ \E z \in LayoutZooms : setZoomLevel(z)
    \/ runEffects
    \/ \E c \in ResizeCols, x \in PointerXs :
          nSessions < MaxLayoutSessions /\ startResizing(c, x)
    \/ \E x \in PointerXs : handleMouseMove(x)
    \/ handleMouseUp
    \/ autoSizeColumns
    \/ \E c \in ResizeCols : autoSizeColumn(c)

SpecLayout == Init /\ [][NextLayout]_vars

NextResize ==
    \/ \E f \in LayoutFiles : handleFileUpload(f)
    \/ \E z \in ZoomLevels : setZoomLevel(z)
    \/ runEffects
    \/ \E c \in ResizeCols, x \in PointerXs : startResizing(c, x)
    \/ \E x \in PointerXs : handleMouseMove(x)
    \/ handleMouseUp

SpecResize == Init /\ [][NextResize]_vars

----------------------------------------------------------------------------
(* Grid: auto-fit of a table longer than the sample *)

SampleFiles == {"long", "small"}

\* ctx.measureText(t).width in three environments: every text measured 0, a
\* font in which the text of the rows after the sample is the widest, and
\* every text very wide.
SampleTexts == {"A", "B", "", "x", "42"}
SampleFns ==
    { [t \in SampleTexts |-> 0],
      [t \in SampleTexts |-> CASE t = "" -> 0 [] t = "x" -> 226
                                [] t = "42" -> 500 [] OTHER -> 110],
      [t \in SampleTexts |-> 1000] }

NextSample ==
    \/ \E f \in SampleFiles : handleFileUpload(f)
    \/ \E id \in SampleFiles : selectTab(id)
    \/ runEffects
    \/ \E mw \in SampleFns \cup {NoCtx} : performAutoSize("", mw)
    \/ \E c \in ResizeCols, mw \in SampleFns :
          ContainerShown /\ performAutoSize(c, mw)

SpecSample == Init /\ [][NextSample]_vars

----------------------------------------------------------------------------
(* Grid: selection and editing *)

Keys == {"ArrowUp", "ArrowDown", "ArrowLeft", "ArrowRight", "Tab", "ShiftTab",
         "Enter", "Escape", "a"}
EditFiles == {"small"}

\* The row's <tr> is among the rendered rows
RowShown(r) ==
    /\ ContainerShown
    /\ r >= startIndex
    /\ r < startIndex + visibleRowCount

\* sheet.data[row][col]
ValueAt(sheet, row, col) ==
    IF row + 1 \in 1..Len(sheet.data) THEN Cell(sheet.data[row + 1], col)
    ELSE UndefV

\* An argument coerced to a number when the draft reads as one
editArgCoerced(draft) == IF draft = "42" THEN NumV(draft) ELSE StrV(draft)

\* The value onCellEdit receives for a draft: the draft, a string
editArg(draft) == StrV(draft)

\* An edit that replaces the row by the one cell: newData[rowIndex] =
\* { [colKey]: value }
handleCellEditRow(ss, id, rowIndex, colKey, value) ==
    IF id = NullId THEN ss
    ELSE [i \in 1..Len(ss) |->
            IF ss[i].id = id
            THEN [ss[i] EXCEPT !.data =
                    [r \in 1..Len(ss[i].data) |->
                       IF r = rowIndex + 1
                       THEN [k \in {colKey} |-> value]
                       ELSE ss[i].data[r]]]
            ELSE ss[i]]

\* App.handleCellEdit(rowIndex, colKey, value): the sheets after it
handleCellEdit(ss, id, rowIndex, colKey, value) ==
    IF id = NullId THEN ss
    ELSE [i \in 1..Len(ss) |->
            IF ss[i].id = id
            THEN [ss[i] EXCEPT !.data =
                    [r \in 1..Len(ss[i].data) |->
                       IF r = rowIndex + 1
                       THEN Put(ss[i].data[r], colKey, value)
                       ELSE ss[i].data[r]]]
            ELSE ss[i]]

\* How often saveEdit runs for one call of it.  Its containerRef.focus() takes
\* the focus from the editor when the editor has it, the editor's onBlur is
\* saveEdit again, and editingCell of that render is still set.
RECURSIVE saveEditRuns(_)
saveEditRuns(editorFocused) ==
    1 + (IF editorFocused THEN saveEditRuns(FALSE) ELSE 0)

\* An editor in which Escape saves as Enter does
keySavesAny(key) == key \in {"Enter", "Escape"}

\* Whether the key makes the editor's onKeyDown, or handleKeyDown while
\* editing, call saveEdit
keySaves(key) == key = "Enter"

\* Whether the reset effect runs after a render in which the sheet prop went
\* from before to after: its dependencies are [sheet.id, sheet.columns]
resetNeeded(before, after) ==
    before.id # after.id \/ before.columns # after.columns

\* saveEdit() run by the handler named op; how names what the user did
\* ("commit", or "cancel" for Escape)
saveEdit(op, how) ==
    /\ IF editingCell # NoEdit
       THEN LET n == saveEditRuns(focus = "input" /\ EditorShown)
                arg == editArg(editValue)
                colIdx == IndexOf(ActiveSheet.columns, editingCell.col)
            IN  /\ sheets' = handleCellEdit(sheets, activeSheetId,
                                            editingCell.row, editingCell.col, arg)
                /\ editingCell' = NoEdit
                /\ selectedCell' =
                     IF colIdx # -1
                     THEN [row |-> editingCell.row, colIdx |-> colIdx]
                     ELSE selectedCell
                /\ focus' = IF ContainerShown THEN "container" ELSE focus
                /\ sessionCalls' = sessionCalls + n
                /\ lastCall' = [row |-> editingCell.row,
                                col |-> editingCell.col, value |-> arg]
                /\ sessionEnd' = IF sessionEnd = "open" THEN how ELSE sessionEnd
       ELSE UNCHANGED << sheets, editingCell, selectedCell, focus,
                         sessionCalls, lastCall, sessionEnd >>
    /\ pendingEffects' =
          IF resetNeeded(ActiveSheet, SheetOf(sheets', activeSheetId))
          THEN "reset" ELSE pendingEffects
    /\ UNCHANGED << activeSheetId, zoomLevel, compareSheetId, mounted,
                    scrollTop, containerHeight, clientHeight, colWidths,
                    editValue, dragVars, dragGhost, sessionOpen, nEdits >>
    /\ DomSettle
    /\ lastOp' = Op(op, "")

\* setEditingCell(null) on Escape
cancelEdit(op) ==
    /\ editingCell' = NoEdit
    /\ sessionEnd' = IF sessionEnd = "open" THEN "cancel" ELSE sessionEnd
    /\ UNCHANGED << hostVars, mounted, pendingEffects, scrollTop,
                    containerHeight, clientHeight, colWidths, editValue,
                    selectedCell, dragVars, dragGhost, sessionCalls, lastCall,
                    sessionOpen, nEdits >>
    /\ DomSettle
    /\ FocusSettle
    /\ lastOp' = Op(op, "")

\* A draft that is String(val) for null too
draftOfRaw(val) ==
    IF val.t = "undefined" THEN "" ELSE IF val.t = "null" THEN "null" ELSE val.s

\* The draft startEditing sets: String(val), or '' for null and undefined
draftOf(val) == DisplayText(val)

\* startEditing(rowIdx, col, val)
startEditing(op, rowIdx, col, val) ==
    /\ nEdits < MaxEdits
    /\ nEdits' = nEdits + 1
    /\ editingCell' = [row |-> rowIdx, col |-> col]
    /\ editValue' = draftOf(val)
    /\ sessionOpen' = [row |-> rowIdx, col |-> col, sheet |-> activeSheetId,
                       before |-> val, draft |-> draftOf(val)]
    /\ sessionCalls' = 0
    /\ sessionEnd' = "open"
    /\ UNCHANGED << hostVars, mounted, pendingEffects, scrollTop,
                    containerHeight, clientHeight, colWidths, selectedCell,
                    dragVars, dragGhost, lastCall >>
    /\ DomSettle
    /\ FocusSettle
    /\ lastOp' = Op(op, col)

\* A pointer press reaches a cell with the editor focused only inside the
\* editor's own cell: anywhere else the editor loses the focus first.
CanPress(r, c) ==
    /\ pendingEffects = "none"
    /\ RowShown(r)
    /\ c \in 0..(Len(ActiveSheet.columns) - 1)
    /\ \/ focus # "input"
       \/ editingCell = [row |-> r, col |-> ActiveSheet.columns[c + 1]]

\* <td onClick>: handleCellClick(rowIdx, colIdx)
handleCellClick(r, c) ==
    /\ CanPress(r, c)
    /\ selectedCell' = [row |-> r, colIdx |-> c]
    /\ focus' = IF focus = "input" THEN "input" ELSE "container"
    /\ UNCHANGED << hostVars, mounted, pendingEffects, scrollVars, colWidths,
                    editingCell, editValue, dragVars, dragGhost, editGhost >>
    /\ lastOp' = Op("handleCellClick", "")

\* <td onDoubleClick>, after the clicks that selected the cell
cellDoubleClick(r, c) ==
    /\ CanPress(r, c)
    /\ selectedCell = [row |-> r, colIdx |-> c]
    /\ startEditing("cellDoubleClick", r, ActiveSheet.columns[c + 1],
                    ValueAt(ActiveSheet, r, ActiveSheet.columns[c + 1]))

\* <input onChange>: the editor's text is now t
editorChange(t) ==
    /\ pendingEffects = "none"
    /\ EditorShown
    /\ focus = "input"
    /\ t # editValue
    /\ editValue' = t
    /\ sessionOpen' = [sessionOpen EXCEPT !.draft = t]
    /\ UNCHANGED << hostVars, mounted, pendingEffects, scrollVars, colWidths,
                    editingCell, selectedCell, focus, dragVars, dragGhost,
                    sessionCalls, lastCall, sessionEnd, nEdits >>
    /\ lastOp' = Op("editorChange", "")

\* <input onKeyDown>, which stops the key from reaching the container
editorKeyDown(key) ==
    /\ pendingEffects = "none"
    /\ EditorShown
    /\ focus = "input"
    /\ key \in {"Enter", "Escape"}
    /\ IF keySaves(key)
       THEN saveEdit("editorKeyDown", IF key = "Escape" THEN "cancel" ELSE "commit")
       ELSE cancelEdit("editorKeyDown")

\* <input onBlur>: the editor lost the focus to something the user did
editorBlur ==
    /\ pendingEffects = "none"
    /\ EditorShown
    /\ focus = "input"
    /\ saveEdit("editorBlur", "commit")

\* scrollToCell(row): the container's new scrollTop
scrollToCell(row) ==
    LET rowTop100 == row * RowHeight100(zoomLevel)
        rowBottom100 == rowTop100 + RowHeight100(zoomLevel)
        viewTop == domScrollTop
        viewBottom == viewTop + clientHeight
    IN  IF ~ContainerShown THEN domScrollTop
        ELSE IF rowTop100 < viewTop * 100 THEN Floor(rowTop100, 100)
        ELSE IF rowBottom100 > viewBottom * 100
             THEN Max(0, Floor(rowBottom100, 100) - clientHeight)
        ELSE domScrollTop

\* Arrow keys that wrap around at the table's edges
navTargetAround(key, row, colIdx, nRows, nCols) ==
    CASE key = "ArrowUp" -> [row |-> (row + nRows - 1) % nRows, colIdx |-> colIdx]
      [] key = "ArrowDown" -> [row |-> (row + 1) % nRows, colIdx |-> colIdx]
      [] key = "ArrowRight" ->
           [row |-> row, colIdx |-> (colIdx + nCols - 1) % nCols]
      [] key = "ArrowLeft" -> [row |-> row, colIdx |-> (colIdx + 1) % nCols]
      [] key = "ShiftTab" ->
           IF Max(0, colIdx - 1) = 0 /\ row > 0
           THEN [row |-> row - 1, colIdx |-> nCols - 1]
           ELSE [row |-> row, colIdx |-> Max(0, colIdx - 1)]
      [] key = "Tab" -> [row |-> row, colIdx |-> Min(nCols - 1, colIdx + 1)]

\* A Tab that goes on to the first column of the next row at a row's end
navTargetWrap(key, row, colIdx, nRows, nCols) ==
    CASE key = "ArrowUp" -> [row |-> Max(0, row - 1), colIdx |-> colIdx]
      [] key = "ArrowDown" -> [row |-> Min(nRows - 1, row + 1), colIdx |-> colIdx]
      [] key = "ArrowRight" -> [row |-> row, colIdx |-> Max(0, colIdx - 1)]
      [] key = "ArrowLeft" -> [row |-> row, colIdx |-> Min(nCols - 1, colIdx + 1)]
      [] key = "ShiftTab" ->
           IF Max(0, colIdx - 1) = 0 /\ row > 0
           THEN [row |-> row - 1, colIdx |-> nCols - 1]
           ELSE [row |-> row, colIdx |-> Max(0, colIdx - 1)]
      [] key = "Tab" ->
           IF colIdx = nCols - 1 /\ row < nRows - 1
           THEN [row |-> row + 1, colIdx |-> 0]
           ELSE [row |-> row, colIdx |-> Min(nCols - 1, colIdx + 1)]

\* The cell a key moves the selection to
navTarget(key, row, colIdx, nRows, nCols) ==
    CASE key = "ArrowUp" -> [row |-> Max(0, row - 1), colIdx |-> colIdx]
      [] key = "ArrowDown" -> [row |-> Min(nRows - 1, row + 1), colIdx |-> colIdx]
      [] key = "ArrowRight" -> [row |-> row, colIdx |-> Max(0, colIdx - 1)]
      [] key = "ArrowLeft" -> [row |-> row, colIdx |-> Min(nCols - 1, colIdx + 1)]
      [] key = "ShiftTab" ->
           IF Max(0, colIdx - 1) = 0 /\ row > 0
           THEN [row |-> row - 1, colIdx |-> nCols - 1]
           ELSE [row |-> row, colIdx |-> Max(0, colIdx - 1)]
      [] key = "Tab" -> [row |-> row, colIdx |-> Min(nCols - 1, colIdx + 1)]

NavKeys == {"ArrowUp", "ArrowDown", "ArrowLeft", "ArrowRight", "Tab", "ShiftTab"}

\* The container's onKeyDown
handleKeyDown(key) ==
    /\ pendingEffects = "none"
    /\ ContainerShown
    /\ focus = "container"
    /\ IF editingCell # NoEdit
       THEN IF keySaves(key)
            THEN saveEdit("handleKeyDown", IF key = "Escape" THEN "cancel" ELSE "commit")
            ELSE IF key = "Escape" THEN cancelEdit("handleKeyDown")
            ELSE UNCHANGED vars
       ELSE IF selectedCell = NoSel THEN UNCHANGED vars
       ELSE IF key = "Enter"
            THEN LET col == ActiveSheet.columns[selectedCell.colIdx + 1]
                 IN  startEditing("handleKeyDown", selectedCell.row, col,
                                  ValueAt(ActiveSheet, selectedCell.row, col))
       ELSE IF key \in NavKeys
            THEN LET to == navTarget(key, selectedCell.row, selectedCell.colIdx,
                                     Len(ActiveSheet.data),
                                     Len(ActiveSheet.columns))
                     st == scrollToCell(to.row)
                 IN  /\ selectedCell' = to
                     /\ domScrollTop' = st
                     /\ scrollTop' = IF st # domScrollTop THEN st ELSE scrollTop
                     /\ scrollEventPending' =
                          (scrollEventPending /\ st = domScrollTop)
                     /\ UNCHANGED << hostVars, mounted, pendingEffects,
                                     containerHeight, clientHeight, colWidths,
                                     editingCell, editValue, focus, dragVars,
                                     dragGhost, editGhost >>
                     /\ lastOp' = Op("handleKeyDown", key)
       ELSE UNCHANGED vars

NextEdit ==
    \/ \E f \in EditFiles : handleFileUpload(f)
    \/ runEffects
    \/ \E r \in 0..1, c \in 0..1 : handleCellClick(r, c)
    \/ \E r \in 0..1, c \in 0..1 : cellDoubleClick(r, c)
    \/ \E t \in DraftTexts : editorChange(t)
    \/ \E k \in {"Enter", "Escape"} : editorKeyDown(k)
    \/ editorBlur
    \/ \E k \in Keys : handleKeyDown(k)

SpecEdit == Init /\ [][NextEdit]_vars

----------------------------------------------------------------------------
(* Grid: tables swapped and scrolled under a selection or an edit session *)

GridFiles == {"big", "small"}
PressCells == {<< 0, 0 >>, << 12, 1 >>}
GridKeys == {"Enter", "Escape"}

NextGrid ==
    \/ \E f \in GridFiles : handleFileUpload(f)
    \/ \E id \in GridFiles : selectTab(id)
    \/ runEffects
    \/ \E s \in {0, ScrollMax} : onScroll(s)
    \/ \E p \in PressCells : handleCellClick(p[1], p[2])
    \/ \E p \in PressCells : cellDoubleClick(p[1], p[2])
    \/ editorChange(" x ")
    \/ \E k \in {"Enter", "Escape"} : editorKeyDown(k)
    \/ editorBlur
    \/ \E k \in GridKeys : handleKeyDown(k)

SpecGrid == Init /\ [][NextGrid]_vars

----------------------------------------------------------------------------
(* Grid: keyboard navigation in a table of three columns *)

NavFiles == {"wide"}

NextNav ==
    \/ \E f \in NavFiles : handleFileUpload(f)
    \/ runEffects
    \/ \E r \in 0..1, c \in 0..2 : handleCellClick(r, c)
    \/ \E k \in {"Enter", "Escape"} : editorKeyDown(k)
    \/ editorBlur
    \/ \E k \in Keys : handleKeyDown(k)

SpecNav == Init /\ [][NextNav]_vars

\* The step is a key k handled by the container with a cell selected and no
\* edit session open
NavStep(k) ==
    /\ lastOp'.name = "handleKeyDown"
    /\ lastOp'.col = k
    /\ editingCell = NoEdit
    /\ selectedCell # NoSel

LastCol == Len(ActiveSheet.columns) - 1

\* C19: Tab without Shift moves the selection to the next column of the same
\* row, and at the last column leaves it where it is.
C19_TabStaysInRow ==
    [][NavStep("Tab") =>
         selectedCell' =
           [row |-> selectedCell.row,
            colIdx |-> IF selectedCell.colIdx < LastCol
                       THEN selectedCell.colIdx + 1 ELSE LastCol]]_vars

\* Tab was handled and the selection is at the last of three columns, row 0
C19_Witness ==
    /\ lastOp.name = "handleKeyDown"
    /\ lastOp.col = "Tab"
    /\ Len(ActiveSheet.columns) = 3
    /\ totalRows > 1
    /\ selectedCell = [row |-> 0, colIdx |-> 2]

\* C20: Shift+Tab moves the selection one column back in the same row when it
\* is not in the first column; from the first column it moves to the last
\* column of the row above, and from (0, 0) it does not move.
C20_ShiftTabOneBack ==
    [][NavStep("ShiftTab") =>
         selectedCell' =
           IF selectedCell.colIdx > 0
           THEN [row |-> selectedCell.row, colIdx |-> selectedCell.colIdx - 1]
           ELSE IF selectedCell.row > 0
           THEN [row |-> selectedCell.row - 1, colIdx |-> LastCol]
           ELSE selectedCell]_vars

ArrowKeys == {"ArrowUp", "ArrowDown", "ArrowLeft", "ArrowRight"}

\* C21: an arrow key handled with a cell selected and no edit open moves the
\* selection by one row or by one column, never both, and stays where it is
\* at the table's first or last row or column: the selection stays in the
\* table and never wraps.
C21_ArrowsClamped ==
    [][\A k \in ArrowKeys : NavStep(k) =>
         LET r == selectedCell.row
             c == selectedCell.colIdx
             lastRow == totalRows - 1
         IN  /\ selectedCell'.row \in 0..lastRow
             /\ selectedCell'.colIdx \in 0..LastCol
             /\ selectedCell' =
                  CASE k = "ArrowUp" ->
                         [row |-> IF r = 0 THEN 0 ELSE r - 1, colIdx |-> c]
                    [] k = "ArrowDown" ->
                         [row |-> IF r = lastRow THEN r ELSE r + 1, colIdx |-> c]
                    [] k = "ArrowRight" ->
                         [row |-> r, colIdx |-> IF c = 0 THEN 0 ELSE c - 1]
                    [] k = "ArrowLeft" ->
                         [row |-> r, colIdx |-> IF c = LastCol THEN c ELSE c + 1]]_vars

\* ArrowDown was handled and the selection is in the table's last row and
\* last column
C21_Witness ==
    /\ lastOp.name = "handleKeyDown"
    /\ lastOp.col = "ArrowDown"
    /\ selectedCell = [row |-> totalRows - 1, colIdx |-> LastCol]
    /\ totalRows > 1
    /\ LastCol > 1

----------------------------------------------------------------------------
(* Grid: keyboard navigation that scrolls *)

ScrollFiles == {"big"}
ScrollKeys == {"ArrowUp", "ArrowDown"}

NextScroll ==
    \/ \E f \in ScrollFiles : handleFileUpload(f)
    \/ runEffects
    \/ \E z \in LayoutZooms : setZoomLevel(z)
    \/ \E s \in ScrollStops \cup {ScrollMax} : onScroll(s)
    \/ \E r \in 0..(BigRows - 1) : handleCellClick(r, 0)
    \/ \E k \in ScrollKeys : handleKeyDown(k)

SpecScroll == Init /\ [][NextScroll]_vars

\* Top and bottom * 100 of row r in the container's content, where the rows
\* follow the header row
rowTopInContent100(r) == HeaderHeight * 100 + r * RowHeight100(zoomLevel)
rowBottomInContent100(r) == rowTopInContent100(r) + RowHeight100(zoomLevel)

\* The part * 100 of the content not covered by the sticky header when the
\* container is scrolled to st
viewTop100(st) == (st + HeaderHeight) * 100
viewBottom100(st) == (st + clientHeight) * 100

\* C27: a navigation key leaves the scroll offset as it is when the target
\* row is entirely in view, and otherwise moves it by the least amount that
\* shows the whole row: the row's top at the top edge of the view when the
\* row was above, its bottom at the bottom edge when it was below.
C27_MinimalScroll ==
    [][(lastOp'.name = "handleKeyDown" /\ lastOp'.col \in NavKeys) =>
         LET r == selectedCell'.row
             top == rowTopInContent100(r)
             bottom == rowBottomInContent100(r)
         IN  IF top < viewTop100(domScrollTop)
             THEN viewTop100(domScrollTop') = top
             ELSE IF bottom > viewBottom100(domScrollTop)
             THEN viewBottom100(domScrollTop') = bottom
             ELSE domScrollTop' = domScrollTop]_vars

----------------------------------------------------------------------------
(* Grid: tables without rows *)

EmptyFiles == {"small", "head"}

NextEmpty ==
    \/ \E f \in EmptyFiles : handleFileUpload(f)
    \/ createEmptySheet
    \/ \E id \in EmptyFiles \cup {"new"} : selectTab(id)
    \/ runEffects
    \/ \E r \in 0..1, c \in 0..1 : handleCellClick(r, c)
    \/ \E r \in 0..1, c \in 0..1 : cellDoubleClick(r, c)
    \/ editorChange(" x ")
    \/ \E k \in {"Enter", "Escape"} : editorKeyDown(k)
    \/ editorBlur
    \/ \E k \in Keys : handleKeyDown(k)

SpecEmpty == Init /\ [][NextEmpty]_vars

\* The grid shows the empty-state panel: no container, no row, no editor, and
\* the keyboard focus on nothing the grid renders
EmptyState ==
    /\ ~ContainerShown
    /\ visibleRowCount = 0
    /\ ~EditorShown
    /\ focus = "body"

\* C24: while the table displayed has no rows the grid is in its empty state
\* and materializes no row, and no step creates a selection, opens an edit
\* session or calls onCellEdit.
C24_EmptyTableInert ==
    [][(mounted /\ totalRows = 0) =>
         /\ EmptyState
         /\ (mounted' /\ totalRows' = 0) =>
               /\ EmptyState'
               /\ selectedCell' \in {selectedCell, NoSel}
               /\ editingCell' \in {editingCell, NoEdit}
               /\ sessionCalls' = sessionCalls
               /\ lastCall' = lastCall
               /\ nEdits' = nEdits]_vars

\* A table without rows replaced one in which a cell was selected and an
\* edit session was open, and the reset has run
C24_Witness ==
    /\ mounted
    /\ totalRows = 0
    /\ lastOp.name = "runEffects"
    /\ lastOp.sel # NoSel
    /\ lastOp.edit # NoEdit
    /\ EmptyState

----------------------------------------------------------------------------
(* Host: zoom controls *)

ZoomFiles == {"small", "head"}

NextZoom ==
    \/ \E f \in ZoomFiles : handleFileUpload(f)
    \/ \E id \in ZoomFiles : selectTab(id)
    \/ runEffects
    \/ \E d \in {0 - ZoomStep, ZoomStep} : adjustZoom(d)
    \/ setZoomLevel(InitialZoom)

SpecZoom == Init /\ [][NextZoom]_vars

\* C23: the zoom percentage is 100 before any action and, after any zoom-in,
\* zoom-out or zoom-reset, an integer from 20 to 200.
C23_ZoomInRange ==
    /\ lastOp = NoOp => zoomLevel = 100
    /\ zoomLevel \in Int
    /\ zoomLevel >= 20
    /\ zoomLevel <= 200

\* Zoom-out was pressed and the zoom is at its lower limit
C23_Witness ==
    /\ lastOp = Op("adjustZoom", "out")
    /\ zoomLevel = 20

----------------------------------------------------------------------------
(* Host and grid: comparison with another table *)

\* isCompareMode && compareSheetId ? sheets.find(s => s.id === compareSheetId)
\* : null
comparisonSheet ==
    IF compareSheetId = NullId THEN NoSheet ELSE SheetOf(sheets, compareSheetId)

\* String(val)
StringOf(val) ==
    CASE val.t = "null" -> "null"
      [] val.t = "undefined" -> "undefined"
      [] OTHER -> val.s

\* String(compareVal ?? '')
StringOrEmpty(val) == IF val.t \in {"null", "undefined"} THEN "" ELSE val.s

\* A test that takes the index after the last row for a row
hasCompareRowLoose(cmp, rowIdx) == rowIdx <= Len(cmp.data)

\* compareSheet.data[rowIdx] is a row
hasCompareRow(cmp, rowIdx) == rowIdx < Len(cmp.data)

\* !(String(val) !== String(compareVal ?? ''))
sameText(val, compareVal) == StringOf(val) = StringOrEmpty(compareVal)

\* The class the compare logic gives a cell: "new-row" for the green classes,
\* "changed" for the amber ones, "unchanged" for none.
getCellClass(cmp, rowIdx, colName, val) ==
    IF cmp = NoSheet THEN "unchanged"
    ELSE IF ~hasCompareRow(cmp, rowIdx) THEN "new-row"
    ELSE IF ~sameText(val, ValueAt(cmp, rowIdx, colName)) THEN "changed"
    ELSE "unchanged"

\* The class of the cell (r, c) of the table displayed
cellClass(r, c) ==
    getCellClass(comparisonSheet, r, c, ValueAt(ActiveSheet, r, c))

\* The comparison selector's onChange: another open table, or NullId for off
setCompareSheetId(id) ==
    /\ mounted
    /\ pendingEffects = "none"
    /\ Len(sheets) > 1
    /\ focus # "input"
    /\ id # compareSheetId
    /\ id # activeSheetId
    /\ id = NullId \/ IsOpen(id)
    /\ compareSheetId' = id
    /\ UNCHANGED << sheets, activeSheetId, zoomLevel, mounted, pendingEffects,
                    scrollVars, colWidths, editVars, editGhost, dragVars,
                    dragGhost >>
    /\ lastOp' = Op("setCompareSheetId", "")

----------------------------------------------------------------------------
(* Host: tabs opened, selected, compared and closed *)

\* A close that leaves activeSheetId as it is
activeKept(newSheets, active, id) == active

\* activeSheetId after closeTab(e, id)
activeAfterClose(newSheets, active, id) ==
    IF active # id THEN active
    ELSE IF Len(newSheets) > 0 THEN newSheets[Len(newSheets)].id
    ELSE NullId

\* closeTab(e, id): the sheet is removed; when it was the active one the last
\* of the remaining sheets becomes active, or none; when it was the
\* comparison table the comparison is switched off.  A grid whose table
\* stays is re-rendered as it is, one that gets another table keeps its state
\* until the reset effect, and one that is no longer rendered loses it.
closeTab(id) ==
    LET newSheets == SelectSeq(sheets, LAMBDA sh : sh.id # id)
        newActive == activeAfterClose(newSheets, activeSheetId, id)
    IN  /\ pendingEffects = "none"
        /\ IsOpen(id)
        /\ focus # "input"
        /\ resizingRef = NoDrag
        /\ sheets' = newSheets
        /\ activeSheetId' = newActive
        /\ compareSheetId' = IF compareSheetId = id THEN NullId
                              ELSE compareSheetId
        /\ UNCHANGED zoomLevel
        /\ IF newActive = NullId
           THEN /\ mounted' = FALSE
                /\ pendingEffects' = "none"
                /\ scrollTop' = 0
                /\ containerHeight' = 0
                /\ colWidths' = << >>
                /\ editingCell' = NoEdit
                /\ editValue' = ""
                /\ selectedCell' = NoSel
                /\ domScrollTop' = 0
                /\ scrollEventPending' = FALSE
                /\ focus' = "body"
                /\ UNCHANGED << resizingRef, isResizing, clientHeight >>
           ELSE IF newActive # activeSheetId
           THEN ShowSheet
           ELSE UNCHANGED << mounted, pendingEffects, scrollVars, colWidths,
                             editVars, dragVars >>
        /\ sessionEnd' = IF newActive = NullId /\ editingCell # NoEdit
                         THEN "reset" ELSE sessionEnd
        /\ UNCHANGED << sessionCalls, lastCall, sessionOpen, nEdits,
                        dragGhost >>
        /\ lastOp' = [name |-> "closeTab", col |-> "",
                       wasActive |-> (activeSheetId = id),
                       wasCompare |-> (compareSheetId = id)]

NextHost ==
    \/ \E f \in FileIds : handleFileUpload(f)
    \/ createEmptySheet
    \/ \E id \in FileIds \cup {"new"} : selectTab(id)
    \/ \E id \in FileIds \cup {"new"} : closeTab(id)
    \/ \E id \in FileIds \cup {"new", NullId} : setCompareSheetId(id)
    \/ runEffects

SpecHost == Init /\ [][NextHost]_vars

\* C36: whenever compare mode is on, the comparison table is another table
\* than the active one.
C36_CompareIsAnother ==
    compareSheetId # NullId => compareSheetId # activeSheetId

\* C37: activeSheetId is null exactly when no sheet is open and otherwise
\* names an open sheet, and compareSheetId is null or names an open sheet.
C37_IdsNameOpenSheets ==
    /\ activeSheetId = NullId <=> Len(sheets) = 0
    /\ activeSheetId # NullId =>
         \E i \in 1..Len(sheets) : sheets[i].id = activeSheetId
    /\ compareSheetId # NullId =>
         \E i \in 1..Len(sheets) : sheets[i].id = compareSheetId

\* The active tab was closed while other sheets were open
C37_Witness ==
    /\ lastOp.name = "closeTab"
    /\ lastOp.wasActive
    /\ Len(sheets) >= 2
    /\ activeSheetId = sheets[Len(sheets)].id

DiffFiles == {"small", "twin", "flags", "big"}

NextDiff ==
    \/ \E f \in DiffFiles : handleFileUpload(f)
    \/ \E id \in DiffFiles : selectTab(id)
    \/ runEffects
    \/ \E id \in DiffFiles \cup {NullId} : setCompareSheetId(id)

SpecDiff == Init /\ [][NextDiff]_vars

\* A comparison table is given to a grid that shows rows
CompareOn == ContainerShown /\ comparisonSheet # NoSheet

RowsOf(sheet) == 0..(Len(sheet.data) - 1)

\* C16: with a comparison table, every cell of a row of the displayed table
\* whose index is not a row index of the comparison table is classified
\* new-row, in every column.
C16_NewRowByIndex ==
    CompareOn =>
      \A r \in RowsOf(ActiveSheet) : \A c \in SeqRange(ActiveSheet.columns) :
         r >= Len(comparisonSheet.data) => cellClass(r, c) = "new-row"

\* The displayed table has more rows than the comparison table
C16_Witness ==
    /\ CompareOn
    /\ Len(comparisonSheet.data) > 0
    /\ totalRows > Len(comparisonSheet.data)
    /\ cellClass(totalRows - 1, "A") = "new-row"

\* C17: a cell of a row that the comparison table has at the same index is
\* classified changed when the text of its value differs from the text of the
\* comparison row's value in that column, a null or absent value having the
\* empty text, and unchanged when the texts are equal.
C17_ChangedIffTextDiffers ==
    CompareOn =>
      \A r \in RowsOf(ActiveSheet) : \A c \in SeqRange(ActiveSheet.columns) :
         r < Len(comparisonSheet.data) =>
           cellClass(r, c) =
             IF DisplayText(ValueAt(ActiveSheet, r, c))
                  # DisplayText(ValueAt(comparisonSheet, r, c))
             THEN "changed" ELSE "unchanged"

\* C18: when the comparison table has the rows and values of the displayed
\* table, every cell is classified unchanged.
C18_Reflexive ==
    (CompareOn /\ comparisonSheet.data = ActiveSheet.data) =>
      \A r \in RowsOf(ActiveSheet) : \A c \in SeqRange(ActiveSheet.columns) :
         cellClass(r, c) = "unchanged"

----------------------------------------------------------------------------
(* Reset on a change of table *)

\* C11: once the change of the table (another sheet.id or column list) has
\* been processed by the grid's reset effect, no cell is selected, whatever
\* was selected before.
C11_SwapClearsSelection ==
    lastOp.name = "runEffects" => selectedCell = NoSel

\* The reset ran with a selection whose row the new table does not have
C11_Witness ==
    /\ lastOp.name = "runEffects"
    /\ lastOp.sel # NoSel
    /\ lastOp.sel.row >= totalRows
    /\ totalRows > 0
    /\ selectedCell = NoSel

\* The selection names a cell of the table displayed
SelectionInRange ==
    selectedCell # NoSel =>
      /\ selectedCell.row >= 0 /\ selectedCell.row < totalRows
      /\ selectedCell.colIdx >= 0
      /\ selectedCell.colIdx < Len(ActiveSheet.columns)

\* The edit session names a row and a column of the table displayed
EditInRange ==
    editingCell # NoEdit =>
      /\ editingCell.row >= 0 /\ editingCell.row < totalRows
      /\ editingCell.col \in SeqRange(ActiveSheet.columns)

\* C12: in every state of a displayed grid, the selection and the open edit
\* session name a cell that exists in the table currently displayed.
C12_RefsInRange ==
    mounted => SelectionInRange /\ EditInRange

\* C13: once the change of the table has been processed, the width map has
\* exactly the columns of the new table, each at 150: no width of the
\* previous table is left, also for a column the two tables share.
C13_SwapResetsWidths ==
    lastOp.name = "runEffects" =>
      /\ DOMAIN colWidths = SeqRange(ActiveSheet.columns)
      /\ \A c \in DOMAIN colWidths : colWidths[c] = DefaultWidth

\* The reset ran with resized columns A and B, for a table that has B only
C13_Witness ==
    /\ lastOp.name = "runEffects"
    /\ lastOp.resized = {"A", "B"}
    /\ ActiveSheet.columns = << "B" >>
    /\ DOMAIN colWidths = {"B"}

\* C14: the change of the table, once processed, leaves no edit session
\* open, and from then on no step invokes onCellEdit for the session that was
\* open on the previous table.
C14_SwapDropsSession ==
    [][/\ lastOp'.name = "runEffects" => editingCell' = NoEdit
       /\ (sessionEnd = "reset" /\ sessionEnd' = "reset") =>
             (sessionCalls' = sessionCalls /\ lastCall' = lastCall)]_vars

\* A typed draft was open when the table changed, and a later click was
\* handled on the new table
C14_Witness ==
    /\ sessionEnd = "reset"
    /\ sessionOpen.draft = " x "
    /\ sessionOpen.sheet # activeSheetId
    /\ sessionCalls = 0
    /\ editingCell = NoEdit
    /\ lastOp.name = "handleCellClick"

\* C15: a step that opens an edit session on a cell starts from a grid with
\* no session open on another cell: a session that was open there has been
\* committed (onCellEdit invoked with its row, column and draft) before the
\* new one exists.
C15_PriorCommitted ==
    [][(nEdits' = nEdits + 1 /\ editingCell' # editingCell)
         => editingCell = NoEdit]_vars

\* C25: a step that ends the open edit session by a commit or a cancel leaves
\* the grid with no session open and the selection on the session's cell.
C25_EndSelectsCell ==
    [][(sessionEnd = "open" /\ sessionEnd' \in {"commit", "cancel"}) =>
         /\ editingCell' = NoEdit
         /\ selectedCell' =
               [row |-> sessionOpen.row,
                colIdx |-> IndexOf(ActiveSheet.columns, sessionOpen.col)]]_vars

\* C26: a step that opens an edit session, by Enter on the selected cell or
\* by a double-click on it, opens it on exactly that cell, with the cell's
\* value as text as the draft ("" for an absent or null value), and leaves
\* the selection on the cell.
C26_OpensOnCell ==
    [][nEdits' = nEdits + 1 =>
         LET col == ActiveSheet.columns[selectedCell.colIdx + 1]
             row == ActiveSheet.data[selectedCell.row + 1]
         IN  /\ lastOp'.name \in {"handleKeyDown", "cellDoubleClick"}
             /\ lastOp'.name = "handleKeyDown" => editingCell = NoEdit
             /\ editingCell' = [row |-> selectedCell.row, col |-> col]
             /\ editValue' = IF col \notin DOMAIN row THEN ""
                             ELSE IF row[col].t = "null" THEN ""
                             ELSE row[col].s
             /\ selectedCell' = selectedCell]_vars

\* Enter opened a session on the selected cell, whose value is null
C26_Witness ==
    /\ lastOp.name = "handleKeyDown"
    /\ sessionEnd = "open"
    /\ sessionOpen.before = NullV
    /\ editingCell = [row |-> 0, col |-> "B"]
    /\ selectedCell = [row |-> 0, colIdx |-> 1]
    /\ editValue = ""

\* C34: whenever an edit session is open, the selected cell is the cell being
\* edited: its row, and the index of its column in the table's columns.
C34_SelectionIsEdited ==
    (ContainerShown /\ pendingEffects = "none" /\ editingCell # NoEdit) =>
       selectedCell =
         [row |-> editingCell.row,
          colIdx |-> IndexOf(ActiveSheet.columns, editingCell.col)]

\* C35: a step that leaves the edit session on its cell open changes the
\* draft only when it is a text input in the editor.
C35_DraftOnlyTyped ==
    [][(/\ editingCell # NoEdit
        /\ editingCell' = editingCell
        /\ editValue' # editValue) => lastOp'.name = "editorChange"]_vars

\* C38: a step in which onCellEdit(rowIndex, column, text) is called leaves
\* every open table with its id, its columns and its row count, changes no
\* table but the active one and in it no cell but (rowIndex, column), which
\* holds the text; and the grid is not reset by the render that follows:
\* no reset effect is due, the widths and the scroll offset are as they were
\* and a cell is still selected.
C38_EditChangesOneCell ==
    [][sessionCalls' > sessionCalls =>
         LET r == lastCall'.row + 1
             c == lastCall'.col
         IN  /\ Len(sheets') = Len(sheets)
             /\ \A i \in 1..Len(sheets) :
                   /\ sheets'[i].id = sheets[i].id
                   /\ sheets'[i].columns = sheets[i].columns
                   /\ Len(sheets'[i].data) = Len(sheets[i].data)
                   /\ sheets[i].id # activeSheetId => sheets'[i] = sheets[i]
                   /\ \A k \in 1..Len(sheets[i].data) :
                         k # r => sheets'[i].data[k] = sheets[i].data[k]
             /\ r \in 1..Len(ActiveSheet.data)
             /\ c \in SeqRange(ActiveSheet.columns)
             /\ DOMAIN ActiveSheet'.data[r] = DOMAIN ActiveSheet.data[r] \cup {c}
             /\ \A k \in DOMAIN ActiveSheet.data[r] \ {c} :
                   ActiveSheet'.data[r][k] = ActiveSheet.data[r][k]
             /\ ActiveSheet'.data[r][c] = lastCall'.value
             /\ lastCall'.value.t = "str"
             /\ pendingEffects' = "none"
             /\ colWidths' = colWidths
             /\ scrollTop' = scrollTop
             /\ selectedCell' # NoSel]_vars

\* A draft was committed in a scrolled grid while another table was open
C38_Witness ==
    /\ sessionEnd = "commit"
    /\ sessionCalls > 0
    /\ lastOp.name \in {"editorKeyDown", "editorBlur", "handleKeyDown"}
    /\ Len(sheets) = 2
    /\ ValueAt(ActiveSheet, lastCall.row, lastCall.col) = StrV(" x ")
    /\ scrollTop > 0
    /\ selectedCell # NoSel

----------------------------------------------------------------------------
(* Cell edit controller *)

\* The cell of the host's tables on which the latest edit session was opened
SessionCell ==
    ValueAt(SheetOf(sheets, sessionOpen.sheet), sessionOpen.row, sessionOpen.col)

\* C1: an edit committed by Enter or by loss of focus has caused exactly one
\* invocation of onCellEdit for its session.
C1_OneCallPerCommit ==
    sessionEnd = "commit" => sessionCalls = 1

\* C2: once a session was cancelled with Escape, onCellEdit has not been
\* invoked for it, at the Escape or at any later event, and the cell in the
\* host's table holds the value it held when the edit began.
C2_CancelNeverCalls ==
    sessionEnd = "cancel" =>
      /\ sessionCalls = 0
      /\ SessionCell = sessionOpen.before

\* A draft was typed, the session cancelled, and a later event handled
C2_Witness ==
    /\ sessionEnd = "cancel"
    /\ sessionOpen.draft = " x "
    /\ lastOp.name = "handleCellClick"

\* C3: a commit hands onCellEdit the row and the column the session was opened
\* on and the draft as last typed, as a string, and the host stores that
\* string in the cell.
C3_CommitExactText ==
    sessionEnd = "commit" =>
      /\ lastCall = [row |-> sessionOpen.row, col |-> sessionOpen.col,
                     value |-> StrV(sessionOpen.draft)]
      /\ SessionCell = StrV(sessionOpen.draft)

\* The draft 42 committed into a cell that held the number 42
C3_Witness ==
    /\ sessionEnd = "commit"
    /\ sessionOpen.before = NumV("42")
    /\ lastCall.value = StrV("42")
    /\ SessionCell = StrV("42")

----------------------------------------------------------------------------
(* Column layout manager *)

InRange(w) == w >= AutoMinWidth /\ w <= AutoMaxWidth

\* C6: in every state of the grid, every column's base width lies in
\* [60, 800].
C6_WidthsInRange ==
    (mounted /\ pendingEffects = "none") =>
      \A c \in SeqRange(ActiveSheet.columns) : InRange(BaseWidth(colWidths, c))

\* The columns the latest performAutoSize resized
AutoTargets ==
    IF lastOp.col # "" THEN {lastOp.col} ELSE SeqRange(ActiveSheet.columns)

\* C7: after an auto-fit of all columns or of one column, every column it
\* resized has a base width in [60, 800], whatever the measured widths; so has
\* every width the second component's autoSizeColumns computes.
C7_AutoFitInRange ==
    /\ (lastOp.name = "performAutoSize" /\ lastOp.ctx) =>
         \A c \in AutoTargets : c \in DOMAIN colWidths /\ InRange(colWidths[c])
    /\ mounted =>
         \A mw \in MeasureFns : \A c \in SeqRange(ActiveSheet.columns) :
            InRange(autoWidth2(ActiveSheet, c, mw))

\* An auto-fit of a table without rows whose header measures very wide
C7_Witness ==
    /\ lastOp.name = "performAutoSize"
    /\ lastOp.ctx
    /\ mounted
    /\ totalRows = 0
    /\ "B" \in DOMAIN colWidths
    /\ colWidths["B"] = AutoMaxWidth

\* The greatest number of a finite non-empty set of numbers
Greatest(S) == CHOOSE m \in S : \A x \in S : x <= m

\* The text a cell is measured as: "" for an absent or a null value
MeasuredText(row, col) ==
    IF col \notin DOMAIN row THEN ""
    ELSE IF row[col].t = "null" THEN ""
    ELSE row[col].s

\* C30: an auto-fit with a measuring context sets the base width of every
\* column it targets to the greatest of the header's width + 40 and the
\* widths + 24 of the column's texts in the rows of index < min(rows, 500),
\* limited to [60, 800]; the rows from index 500 on have no part in it.
C30_AutoFitWidth ==
    (lastOp.name = "performAutoSize" /\ lastOp.ctx) =>
      \A c \in AutoTargets :
        LET mw == lastOp.mw
            rows == ActiveSheet.data
            n == IF Len(rows) < 500 THEN Len(rows) ELSE 500
            widest == Greatest({mw[c] + 40} \cup
                        {mw[MeasuredText(rows[i], c)] + 24 : i \in 1..n})
            limited == IF widest < 60 THEN 60
                       ELSE IF widest > 800 THEN 800 ELSE widest
        IN  c \in DOMAIN colWidths /\ colWidths[c] = limited

\* An auto-fit of a table of more than 500 rows whose widest text of column A
\* among the first 500 rows is in the row of index 499, and whose rows after
\* them hold wider texts
C30_Witness ==
    /\ lastOp.name = "performAutoSize"
    /\ lastOp.ctx
    /\ lastOp.col = ""
    /\ totalRows > 500
    /\ lastOp.mw["42"] = 500
    /\ colWidths = [A |-> 250, B |-> 150]

\* C22: an auto-fit in an environment without a text-measurement context
\* returns without changing anything: the widths, the selection, the edit
\* session and the scroll offset are as before the call.
C22_NoContextNoChange ==
    [][(lastOp'.name = "performAutoSize" /\ ~lastOp'.ctx) =>
         UNCHANGED << colWidths, selectedCell, editingCell, editValue,
                      scrollTop, domScrollTop >>]_vars

\* Such an auto-fit was called on a grid with a resized column
C22_Witness ==
    /\ lastOp.name = "performAutoSize"
    /\ ~lastOp.ctx
    /\ Resized(colWidths) # {}
    /\ totalRows > 0

\* C31: after a pointer-move of a drag at one zoom level z that the lower
\* limit did not cut, the column's base width differs from the width the
\* drag started with by the displacement * 100 / z: the rendered width,
\* base width * z / 100, differs by the displacement in screen pixels.
C31_DragScaledByZoom ==
    (/\ resizingRef # NoDrag
     /\ lastOp.name = "handleMouseMove"
     /\ curDrag.zoom = zoomLevel
     /\ ~curDrag.clamped) =>
       (BaseWidth(colWidths, resizingRef.col) - resizingRef.startWidth)
           * zoomLevel
         = (resizingRef.startX - curDrag.x) * 100

\* A drag of 200 screen pixels at zoom 200 that widened a column of 150 by 100
C31_Witness ==
    /\ resizingRef # NoDrag
    /\ lastOp.name = "handleMouseMove"
    /\ zoomLevel = 200
    /\ curDrag.zoom = 200
    /\ ~curDrag.clamped
    /\ resizingRef.startX - curDrag.x = 200
    /\ resizingRef.startWidth = 150
    /\ BaseWidth(colWidths, resizingRef.col) = 250

\* C32: a pointer-up leaves no drag session, a session begins only with a
\* pointer-down on a resize handle, and a pointer-move changes a width only
\* within a session: none does between a pointer-up and the next
\* pointer-down.
C32_PointerUpEnds ==
    [][/\ lastOp'.name = "handleMouseUp" =>
            (resizingRef' = NoDrag /\ ~isResizing')
       /\ (resizingRef = NoDrag /\ resizingRef' # NoDrag) =>
            lastOp'.name = "startResizing"
       /\ (lastOp'.name = "handleMouseMove" /\ colWidths' # colWidths) =>
            (resizingRef # NoDrag /\ resizingRef' = resizingRef)
       /\ (resizingRef = NoDrag /\ lastOp'.name # "startResizing") =>
            (lastOp'.name # "handleMouseMove" \/ colWidths' = colWidths)]_vars

\* A pointer-up ended a session whose moves changed the column's width
C32_Witness ==
    /\ lastOp.name = "handleMouseUp"
    /\ resizingRef = NoDrag
    /\ ~isResizing
    /\ lastDrag # NoDragRec
    /\ lastDrag.after # lastDrag.before

\* C33: once the reset for the table displayed has run, every key of the
\* width map is a column of that table, also when the table was replaced
\* during a drag and the drag's pointer-moves went on.
C33_WidthKeysAreColumns ==
    (mounted /\ pendingEffects = "none") =>
       DOMAIN colWidths \subseteq SeqRange(ActiveSheet.columns)

\* The drag in progress undoes the drag before it: same column, same zoom
\* throughout, the opposite pointer displacement, starting from the width
\* the other ended with, and no clamp or other width change in either.
UndoesLastDrag ==
    /\ resizingRef # NoDrag
    /\ lastDrag # NoDragRec
    /\ lastOp.name = "handleMouseMove"
    /\ resizingRef.col = lastDrag.col
    /\ curDrag.zoom = zoomLevel
    /\ lastDrag.zoom = zoomLevel
    /\ curDrag.x - resizingRef.startX = 0 - lastDrag.disp
    /\ curDrag.before = lastDrag.after
    /\ ~curDrag.clamped /\ ~lastDrag.clamped
    /\ curDrag.clean /\ lastDrag.clean

\* C8: at a fixed zoom, a resize by +D followed by a resize by -D leaves the
\* column with the base width it had before the two, when neither was clamped.
C8_RoundTrip ==
    UndoesLastDrag =>
      BaseWidth(colWidths, resizingRef.col) = lastDrag.before

C8_Witness ==
    /\ UndoesLastDrag
    /\ lastDrag.disp # 0
    /\ zoomLevel # 100
    /\ lastDrag.after # lastDrag.before

\* C9: a pointer-move of a drag leaves the base width of every column other
\* than the dragged one as it was.
C9_OthersUnchanged ==
    [][lastOp'.name = "handleMouseMove" =>
         \A c \in (DOMAIN colWidths \cup DOMAIN colWidths'
                     \cup SeqRange(ActiveSheet.columns)) \ {resizingRef.col} :
            BaseWidth(colWidths', c) = BaseWidth(colWidths, c)]_vars

\* A move changed the dragged column while another column had been resized
C9_Witness ==
    /\ lastOp.name = "handleMouseMove"
    /\ resizingRef # NoDrag
    /\ BaseWidth(colWidths, resizingRef.col) # resizingRef.startWidth
    /\ \E c \in DOMAIN colWidths \ {resizingRef.col} :
          colWidths[c] # DefaultWidth

\* C10: the same pointer position delivered again in the same drag session at
\* the same zoom leaves the column's base width as the first delivery left it.
C10_Idempotent ==
    [][(/\ lastOp.name = "handleMouseMove"
        /\ lastOp'.name = "handleMouseMove"
        /\ resizingRef # NoDrag
        /\ resizingRef' = resizingRef
        /\ curDrag'.x = curDrag.x
        /\ zoomLevel' = zoomLevel
        /\ curDrag.zoom = zoomLevel)
       => BaseWidth(colWidths', resizingRef.col)
            = BaseWidth(colWidths, resizingRef.col)]_vars

\* A move has set a width other than the session's start width
C10_Witness ==
    /\ lastOp.name = "handleMouseMove"
    /\ resizingRef # NoDrag
    /\ curDrag.x # resizingRef.startX
    /\ curDrag.zoom = zoomLevel
    /\ ~curDrag.clamped
    /\ BaseWidth(colWidths, resizingRef.col) # resizingRef.startWidth

----------------------------------------------------------------------------
(* Viewport windower *)

\* C4: in every render of a table's rows, whatever the row count, row height,
\* scroll offset and viewport height, 0 <= startIndex <= endIndex <= totalRows.
C4_RangeWithinTable ==
    ContainerShown =>
      /\ 0 <= startIndex
      /\ startIndex <= endIndex
      /\ endIndex <= totalRows

C28_RangeCurrent ==
    (ContainerShown /\ pendingEffects = "none" /\ ~scrollEventPending) =>
      /\ startIndex = startIndexOf(domScrollTop, zoomLevel)
      /\ endIndex = endIndexOf(domScrollTop, clientHeight, totalRows, zoomLevel)

\* Row i's extent [i * rowHeight, (i + 1) * rowHeight) meets the interval
\* [scrollTop, scrollTop + containerHeight) the range is computed for
InView(i) ==
    /\ i * RowHeight100(zoomLevel) < (scrollTop + containerHeight) * 100
    /\ (i + 1) * RowHeight100(zoomLevel) > scrollTop * 100

\* C29: for a scroll offset within the height of the rows, every row of the
\* table that meets the view, and every row of the table at most 10 rows
\* before or after such a row, is in [startIndex, endIndex).
C29_RangeCoversView ==
    (mounted /\ scrollTop * 100 <= totalRows * RowHeight100(zoomLevel)) =>
      \A i \in 0..(totalRows - 1) :
        (\E j \in 0..(totalRows - 1) :
            /\ InView(j)
            /\ i - j <= 10
            /\ j - i <= 10)
          => (startIndex <= i /\ i < endIndex)

\* Rows are in view, and the table has more than 10 rows before the first
\* and after the last of them
C29_Witness ==
    /\ mounted
    /\ pendingEffects = "none"
    /\ \E j \in 0..(totalRows - 1) : InView(j)
    /\ \A j \in 0..(totalRows - 1) : InView(j) => (j > 10 /\ j + 11 < totalRows)
    /\ startIndex > 0
    /\ endIndex < totalRows

====
